---- MODULE Spec2Model ----
(***************************************************************************)
(* Model of the dom-search-spa backend: the token chunker                  *)
(* (backend/chunker.py), the Pinecone wrapper (backend/vector_store.py)    *)
(* and the /search request handler (backend/main.py).                      *)
(*                                                                         *)
(* Two specifications:                                                     *)
(*   SpecChunk  TextChunker.chunk_content, run statement by statement on   *)
(*              block lists drawn from bounded sets;                       *)
(*   Spec       one /search request, one step per external call.           *)
(***************************************************************************)
EXTENDS Integers, Sequences, FiniteSets, TLC

VARIABLES
    \* ---- TextChunker (chunker.py) ----
    max_tokens,      \* self.max_tokens
    overlap_tokens,  \* self.overlap_tokens
    html_chunks,     \* argument of chunk_content: the HTMLChunk list
    result_chunks,   \* local result_chunks
    block_idx,       \* number of blocks the for loop has finished
    tokens,          \* local tokens of the block being split
    start,           \* local start
    chunk_index,     \* local chunk_index
    chunk_pc,        \* position inside chunk_content
    windows,         \* history: the slice [start:end] behind each emitted segment
    \* ---- VectorStore (vector_store.py) and the Pinecone index behind it ----
    index,             \* self.index is not None
    collection_exists, \* the index "semantic-search-demo" exists in Pinecone
    index_vectors,     \* the vectors stored in the index
    fresh,             \* ids upserted by this process: a query may not see them yet
    \* ---- the /search handler (main.py) ----
    pc,              \* position of the request inside search()
    url,             \* search_request.url
    query,           \* search_request.query
    text_chunks,     \* local text_chunks
    normalized_url,  \* local normalized_url
    vectors,         \* index_chunks: local vectors
    batch_lo,        \* index_chunks: loop variable i of the upsert loop
    raw_results,     \* local raw_results
    broad_results,   \* local broad_results
    results,         \* local results
    response,        \* what the request answered
    response_cache,  \* the module-level TTLCache
    calls,           \* history: the external calls this request has made
    n_requests,      \* history: requests received so far
    \* ---- the process: one event loop, one VectorStore ----
    waiting,         \* the requests suspended in await html_parser.fetch_html
    control,         \* history: _ensure_index calls and the control-plane calls
    runs             \* history: the index_chunks runs that reached the upsert loop

chunk_vars == <<max_tokens, overlap_tokens, html_chunks, result_chunks, block_idx,
                tokens, start, chunk_index, chunk_pc, windows>>

store_vars == <<index, collection_exists, index_vectors, fresh>>

request_vars == <<pc, url, query, text_chunks, normalized_url, vectors, batch_lo,
                  raw_results, broad_results, results, response, response_cache,
                  calls, n_requests>>

proc_vars == <<waiting, control, runs>>

vars == <<chunk_vars, store_vars, request_vars, proc_vars>>

-----------------------------------------------------------------------------
\* Bounds of the model

MaxMaxTokens == 3
MaxTextLen == 4
MaxBlocks == 2
ScenarioExtra == 20
LargeN == 22
DupWords == 4
MaxSlashes == 1
NumVariants == 4
MaxRequests == 2

\* Program constants

DefaultMaxTokens == 500
DefaultOverlapTokens == 50

-----------------------------------------------------------------------------
\* Text and tokens.  A text is a sequence of characters; every character that
\* is not whitespace is one token of the uncased vocabulary.

Whitespace == {" ", "\t"}

Lower(c) == IF c = "A" THEN "a" ELSE c

IsToken(c) == c \notin Whitespace

\* tokenizer.encode(text, add_special_tokens=False)
Encode(text) ==
    LET kept == SelectSeq(text, IsToken)
    IN  [i \in 1..Len(kept) |-> Lower(kept[i])]

\* tokenizer.decode(chunk_tokens, skip_special_tokens=True): the tokens joined
\* by single spaces
Decode(toks) ==
    IF Len(toks) = 0 THEN <<>>
    ELSE [i \in 1..(2 * Len(toks) - 1) |->
             IF i % 2 = 1 THEN toks[(i + 1) \div 2] ELSE " "]

\* Python's min
Min(a, b) == IF a <= b THEN a ELSE b

\* tokens[s:e] for s >= 0: a Python slice stops at the end of the list
Slice(toks, s, e) == SubSeq(toks, s + 1, Min(e, Len(toks)))

-----------------------------------------------------------------------------
\* HTMLChunk (html_parser.py)

HTMLChunk(text, html, dom_path, position) ==
    [text |-> text, html |-> html, dom_path |-> dom_path, position |-> position]

-----------------------------------------------------------------------------
\* TextChunker.chunk_content

\* mutant: the limit tested one token too high
FitsOneChunk_OffByOne(toks, maxTok) == Len(toks) <= maxTok + 1

\* if len(tokens) <= self.max_tokens
FitsOneChunk(toks, maxTok) == Len(toks) <= maxTok

\* mutant: the single chunk carries the decoded tokens, not the text
SingleChunk_Decoded(block, toks) ==
    [content     |-> Decode(toks),
     html        |-> block.html,
     dom_path    |-> block.dom_path,
     position    |-> block.position,
     token_count |-> Len(toks),
     chunk_index |-> 0]

\* the dictionary appended in the single-chunk branch
SingleChunk(block, toks) ==
    [content     |-> block.text,
     html        |-> block.html,
     dom_path    |-> block.dom_path,
     position    |-> block.position,
     token_count |-> Len(toks),
     chunk_index |-> 0]

\* end = min(start + self.max_tokens, len(tokens))
WindowEnd(s, toks, maxTok) == Min(s + maxTok, Len(toks))

\* mutant: every window of a block is numbered 0
WindowChunk_IndexZero(block, toks, s, idx, maxTok) ==
    LET end == WindowEnd(s, toks, maxTok)
        chunk_tokens == Slice(toks, s, end)
    IN  [content     |-> Decode(chunk_tokens),
         html        |-> block.html,
         dom_path    |-> block.dom_path,
         position    |-> block.position,
         token_count |-> Len(chunk_tokens),
         chunk_index |-> 0]

\* the dictionary appended by one iteration of the while loop
WindowChunk(block, toks, s, idx, maxTok) ==
    LET end == WindowEnd(s, toks, maxTok)
        chunk_tokens == Slice(toks, s, end)
    IN  [content     |-> Decode(chunk_tokens),
         html        |-> block.html,
         dom_path    |-> block.dom_path,
         position    |-> block.position,
         token_count |-> Len(chunk_tokens),
         chunk_index |-> idx]

\* mutants: the next window starts one token late; with no overlap; with
\* the overlap added instead of subtracted
NextStart_SkipOne(end, toks, overlap) ==
    IF end < Len(toks) THEN end - overlap + 1 ELSE end

NextStart_NoOverlap(end, toks, overlap) == end

NextStart_SignFlip(end, toks, overlap) ==
    IF end < Len(toks) THEN end + overlap ELSE end

\* mutant: the overlap is taken back after the last window too
NextStart_AlwaysBack(end, toks, overlap) == end - overlap

\* start = end - self.overlap_tokens if end < len(tokens) else end
NextStart(end, toks, overlap) ==
    IF end < Len(toks) THEN end - overlap ELSE end

\* for html_chunk in html_chunks: the block fits one chunk
ChunkSingle ==
    /\ chunk_pc = "for"
    /\ block_idx < Len(html_chunks)
    /\ LET block == html_chunks[block_idx + 1]
           toks == Encode(block.text)
       IN  /\ FitsOneChunk(toks, max_tokens)
           /\ result_chunks' = Append(result_chunks, SingleChunk(block, toks))
           /\ windows' = Append(windows,
                  [block |-> block_idx + 1, lo |-> 0, hi |-> Len(toks),
                   len |-> Len(toks), split |-> FALSE])
    /\ block_idx' = block_idx + 1
    /\ UNCHANGED <<max_tokens, overlap_tokens, html_chunks, tokens, start,
                   chunk_index, chunk_pc>>
    /\ UNCHANGED <<store_vars, request_vars, proc_vars>>

\* for html_chunk in html_chunks: the block is too long, enter the while loop
ChunkSplitBegin ==
    /\ chunk_pc = "for"
    /\ block_idx < Len(html_chunks)
    /\ LET block == html_chunks[block_idx + 1]
           toks == Encode(block.text)
       IN  /\ ~FitsOneChunk(toks, max_tokens)
           /\ tokens' = toks
    /\ chunk_index' = 0
    /\ start' = 0
    /\ chunk_pc' = "while"
    /\ UNCHANGED <<max_tokens, overlap_tokens, html_chunks, result_chunks,
                   block_idx, windows>>
    /\ UNCHANGED <<store_vars, request_vars, proc_vars>>

\* one iteration of: while start < len(tokens)
ChunkWindow ==
    /\ chunk_pc = "while"
    /\ start < Len(tokens)
    /\ LET block == html_chunks[block_idx + 1]
           end == WindowEnd(start, tokens, max_tokens)
       IN  /\ result_chunks' = Append(result_chunks,
                  WindowChunk(block, tokens, start, chunk_index, max_tokens))
           /\ windows' = Append(windows,
                  [block |-> block_idx + 1, lo |-> start, hi |-> end,
                   len |-> Len(tokens), split |-> TRUE])
           /\ start' = NextStart(end, tokens, overlap_tokens)
    /\ chunk_index' = chunk_index + 1
    /\ UNCHANGED <<max_tokens, overlap_tokens, html_chunks, block_idx, tokens,
                   chunk_pc>>
    /\ UNCHANGED <<store_vars, request_vars, proc_vars>>

\* the while condition fails: on to the next block
ChunkWindowExit ==
    /\ chunk_pc = "while"
    /\ ~(start < Len(tokens))
    /\ block_idx' = block_idx + 1
    /\ chunk_pc' = "for"
    /\ UNCHANGED <<max_tokens, overlap_tokens, html_chunks, result_chunks,
                   tokens, start, chunk_index, windows>>
    /\ UNCHANGED <<store_vars, request_vars, proc_vars>>

\* return result_chunks
ChunkReturn ==
    /\ chunk_pc = "for"
    /\ block_idx = Len(html_chunks)
    /\ chunk_pc' = "returned"
    /\ UNCHANGED <<max_tokens, overlap_tokens, html_chunks, result_chunks,
                   block_idx, tokens, start, chunk_index, windows>>
    /\ UNCHANGED <<store_vars, request_vars, proc_vars>>

-----------------------------------------------------------------------------
\* chunk_content as a function of its argument: the loops above run to the end

RECURSIVE WindowLoop(_, _, _, _)
WindowLoop(block, toks, s, idx) ==
    IF s < Len(toks)
    THEN <<WindowChunk(block, toks, s, idx, max_tokens)>>
         \o WindowLoop(block, toks,
                NextStart(WindowEnd(s, toks, max_tokens), toks, overlap_tokens),
                idx + 1)
    ELSE <<>>

ChunkBlock(block) ==
    LET toks == Encode(block.text)
    IN  IF FitsOneChunk(toks, max_tokens)
        THEN <<SingleChunk(block, toks)>>
        ELSE WindowLoop(block, toks, 0, 0)

\* the chunks of the blocks lo..hi, in order (the range is halved so that a
\* long page does not nest deeply)
RECURSIVE ChunkRange(_, _, _)
ChunkRange(blocks, lo, hi) ==
    IF lo > hi THEN <<>>
    ELSE IF lo = hi THEN ChunkBlock(blocks[lo])
         ELSE LET h == (lo + hi) \div 2
              IN  ChunkRange(blocks, lo, h) \o ChunkRange(blocks, h + 1, hi)

\* for html_chunk in html_chunks: ...; return result_chunks
ChunkContent(blocks) == ChunkRange(blocks, 1, Len(blocks))

-----------------------------------------------------------------------------
\* URLs.  A URL is a sequence whose first element is an origin and whose other
\* elements are the characters that follow it: a port, then slashes.

Origins == {"https://a.com", "https://b.com"}

Colon == ":"

PortDigits == {"0", "8"}

\* the origin is followed by a port of two digits
HasPort(u) ==
    /\ Len(u) >= 4
    /\ u[2] = Colon
    /\ u[3] \in PortDigits
    /\ u[4] \in PortDigits

Slash == "/"

\* validators.url(search_request.url)
ValidUrl(u) ==
    /\ Len(u) >= 1
    /\ u[1] \in Origins
    /\ \A i \in (IF HasPort(u) THEN 5 ELSE 2)..Len(u) : u[i] = Slash

\* str.rstrip('/')
RECURSIVE RStrip(_)
RStrip(u) ==
    IF Len(u) > 0 /\ u[Len(u)] = Slash
    THEN RStrip(SubSeq(u, 1, Len(u) - 1))
    ELSE u

-----------------------------------------------------------------------------
\* Embeddings and similarity.  Scores are fixed-point numbers, ScoreUnit = 1.0.

ScoreUnit == 100000

Word(i) == "w" \o ToString(i)

\* the words w1, w2, ... of the texts of the model
WordTable == [i \in 1..(LargeN + 1) |-> Word(i)]

WordIdx(tok) ==
    IF \E i \in DOMAIN WordTable : WordTable[i] = tok
    THEN CHOOSE i \in DOMAIN WordTable : WordTable[i] = tok
    ELSE 0

\* self.model.encode(text): the model reads the uncased tokens of the text
Embedding(text) == Encode(text)

\* the cosine similarity Pinecone reports for a stored vector: it can exceed
\* 1.0 by a rounding error and can be negative
Cosine(qv, v) ==
    LET k == IF Len(v) = 0 THEN 0 ELSE WordIdx(v[1])
        n == Len(v)
    IN  IF Len(qv) > 0 /\ qv[1] = "x"
        THEN ScoreUnit + 3015 - 3000 * k - 7 * n
        ELSE 3000 * k + 7 * n - 6015

-----------------------------------------------------------------------------
\* VectorStore (vector_store.py)

\* vector_id = f"{source_url}_{i}"
VectorId(source_url, i) == <<source_url, "_", i>>

\* index_chunks: the list vectors built from the chunks
BuildVectors(chunks, source_url) ==
    [i \in 1..Len(chunks) |->
        [id       |-> VectorId(source_url, i - 1),
         values   |-> Embedding(chunks[i].content),
         metadata |-> [content  |-> chunks[i].content,
                       html     |-> chunks[i].html,
                       dom_path |-> chunks[i].dom_path,
                       url      |-> source_url,
                       position |-> chunks[i].position]]]

\* batch_size = 100
BatchSize == 100

\* mutant: every batch is cut from the head of the list
Batch_FromHead(vecs, i) == SubSeq(vecs, 1, Min(BatchSize, Len(vecs)))

\* batch = vectors[i:i + batch_size]
Batch(vecs, i) == SubSeq(vecs, i + 1, Min(i + BatchSize, Len(vecs)))

IdsOf(vecs) == {vecs[i].id : i \in 1..Len(vecs)}

\* mutant: the batch is added whatever the ids stored
Upsert_Insert(stored, batch) == stored \o batch

\* self.index.upsert(vectors=batch): a stored vector whose id is in the batch
\* is replaced by the batch's (last) vector of that id; the vectors with new
\* ids are added in the order of the batch
Upsert(stored, batch) ==
    LET ids == IdsOf(batch)
        known == IdsOf(stored)
        LastOf(id) ==
            batch[CHOOSE k \in 1..Len(batch) :
                      /\ batch[k].id = id
                      /\ \A m \in (k + 1)..Len(batch) : batch[m].id # id]
        replaced == [j \in 1..Len(stored) |->
                        IF stored[j].id \in ids THEN LastOf(stored[j].id)
                        ELSE stored[j]]
        firsts == {k \in 1..Len(batch) :
                      /\ batch[k].id \notin known
                      /\ \A m \in 1..(k - 1) : batch[m].id # batch[k].id}
        Nth(n) == CHOOSE k \in firsts : Cardinality({m \in firsts : m < k}) = n - 1
    IN  replaced \o [n \in 1..Cardinality(firsts) |-> LastOf(batch[Nth(n)].id)]

\* the vectors a query sees: all of them, or all but the ones this process
\* has just written (Pinecone is eventually consistent)
Visible(sees_fresh) ==
    IF sees_fresh THEN index_vectors
    ELSE LET Old(v) == v.id \notin fresh IN SelectSeq(index_vectors, Old)

\* filter={"url": {"$eq": url_filter}} if url_filter else None
Eligible(stored, url_filter) ==
    LET Pass(v) == url_filter = <<>> \/ v.metadata.url = url_filter
    IN  SelectSeq(stored, Pass)

\* self.index.query(vector, top_k, filter): the top_k eligible vectors by
\* descending score; equal scores keep the order of the store
IndexQuery(stored, qv, top_k, url_filter) ==
    LET el == Eligible(stored, url_filter)
        scored == [j \in 1..Len(el) |->
                      [score |-> Cosine(qv, el[j].values), ord |-> j,
                       metadata |-> el[j].metadata]]
        Before(a, b) == a.score > b.score \/ (a.score = b.score /\ a.ord < b.ord)
        ranked == SortSeq(scored, Before)
    IN  SubSeq(ranked, 1, Min(top_k, Len(ranked)))

\* round(score, 4), in units of 0.0001
Round4(score) ==
    LET q == score \div 10
        r == score % 10
    IN  IF r > 5 \/ (r = 5 /\ q % 2 = 1) THEN q + 1 ELSE q

\* Python's int(): truncation towards zero
TruncDiv(a, b) == IF a >= 0 THEN a \div b ELSE -((-a) \div b)

\* one entry of formatted_results
FormatMatch(match) ==
    LET score == Min(match.score, ScoreUnit)
    IN  [score      |-> Round4(score),
         percentage |-> Min(TruncDiv(score * 100, ScoreUnit), 100),
         dom_path   |-> match.metadata.dom_path,
         chunk_text |-> match.metadata.content,
         chunk_html |-> match.metadata.html,
         url        |-> match.metadata.url]

\* VectorStore.search(query, limit, url_filter)
StoreSearch(stored, q, limit, url_filter) ==
    LET matches == IndexQuery(stored, Embedding(q), limit, url_filter)
    IN  [j \in 1..Len(matches) |-> FormatMatch(matches[j])]

\* mutant: a probe that raised counts as indexed
UrlExists_FailOpen(stored, u, probe_ok) ==
    \/ ~probe_ok
    \/ Len(IndexQuery(stored, <<>>, 1, u)) > 0

\* VectorStore.url_exists(url): the probe, with failures swallowed
UrlExists(stored, u, probe_ok) ==
    /\ probe_ok
    /\ Len(IndexQuery(stored, <<>>, 1, u)) > 0

\* mutant: a probe without the url filter
Probe_Unfiltered(stored, u, probe_ok) ==
    IF probe_ok THEN Len(IndexQuery(stored, <<>>, 1, <<>>)) ELSE -1

\* what the probe of url_exists gave: the number of matches of the query
\* (vector=[0.0] * dim, filter on url, top_k=1), or -1 when the query raised
Probe(stored, u, probe_ok) ==
    IF probe_ok THEN Len(IndexQuery(stored, <<>>, 1, u)) ELSE -1

\* mutant: the loop is left after its first batch
AfterBatch_OneBatch(i, vecs) == "search"

\* the upsert loop of index_chunks after the batch at i: another batch, or
\* back in the handler for time.sleep(2) and the search
AfterBatch(i, vecs) == IF i + BatchSize < Len(vecs) THEN "index" ELSE "search"

-----------------------------------------------------------------------------
\* The /search handler (main.py)

\* len(search_request.query) > 200 and len(search_request.query) < 2
MaxQueryLen == 200

MinQueryLen == 2

\* limit=20 of the filtered search, limit=10 of the broad search, and the
\* 10 unique results at which the deduplication stops
PrimaryLimit == 20

BroadLimit == 10

UniqueLimit == 10

\* SearchResponse.results: max_length=10
MaxResults == 10

\* time.sleep(2) after index_chunks
IndexDelay == 2

\* cache_key = f"{search_request.url}:{search_request.query}"
CacheKey(u, q) == u \o <<Colon>> \o q

CacheHas(key) == \E e \in response_cache : e.key = key

CacheGet(key) == (CHOOSE e \in response_cache : e.key = key).value

\* response_cache[cache_key] = response
CachePut(cache, key, value) ==
    {e \in cache : e.key # key} \cup {[key |-> key, value |-> value]}

\* str.split(): the maximal runs of non-whitespace characters
RECURSIVE SplitLoop(_, _, _, _)
SplitLoop(text, i, cur, acc) ==
    IF i > Len(text)
    THEN IF cur = <<>> THEN acc ELSE Append(acc, cur)
    ELSE IF text[i] \in Whitespace
         THEN SplitLoop(text, i + 1, <<>>,
                        IF cur = <<>> THEN acc ELSE Append(acc, cur))
         ELSE SplitLoop(text, i + 1, Append(cur, text[i]), acc)

Split(text) == SplitLoop(text, 1, <<>>, <<>>)

\* " ".join(words)
RECURSIVE Join(_)
Join(words) ==
    IF words = <<>> THEN <<>>
    ELSE IF Len(words) = 1 THEN words[1]
         ELSE words[1] \o <<" ">> \o Join(Tail(words))

\* mutant: the signature is the raw text
ContentSignature_Raw(text) == text

\* content_signature = " ".join(res['chunk_text'].split())
ContentSignature(text) == Join(Split(text))

\* mutant: the stored url is compared as it is
KeepBroad_NoStrip(res, norm_url) == res.url = norm_url

\* the manual re-filter of the broad results
KeepBroad(res, norm_url) == RStrip(res.url) = norm_url

RecoverFromBroad(broad, norm_url) ==
    LET Keep(res) == KeepBroad(res, norm_url) IN SelectSeq(broad, Keep)

\* mutant: the loop stops one result late
RECURSIVE DedupLoop_LateBreak(_, _, _, _)
DedupLoop_LateBreak(raw, i, kept, seen_content) ==
    IF i > Len(raw) THEN kept
    ELSE LET content_signature == ContentSignature(raw[i].chunk_text)
             is_new == content_signature \notin seen_content
             kept2 == IF is_new THEN Append(kept, raw[i]) ELSE kept
             seen2 == seen_content \cup {content_signature}
         IN  IF Len(kept2) > UniqueLimit THEN kept2
             ELSE DedupLoop_LateBreak(raw, i + 1, kept2, seen2)

\* the deduplication loop: for res in raw_results, from entry i on
RECURSIVE DedupLoop(_, _, _, _)
DedupLoop(raw, i, kept, seen_content) ==
    IF i > Len(raw) THEN kept
    ELSE LET content_signature == ContentSignature(raw[i].chunk_text)
             is_new == content_signature \notin seen_content
             kept2 == IF is_new THEN Append(kept, raw[i]) ELSE kept
             seen2 == seen_content \cup {content_signature}
         IN  IF Len(kept2) >= UniqueLimit THEN kept2
             ELSE DedupLoop(raw, i + 1, kept2, seen2)

\* mutant: a later candidate replaces the kept one of the same signature
Deduplicate_KeepLast(raw) ==
    LET Rev(q) == [i \in 1..Len(q) |-> q[Len(q) + 1 - i]]
    IN  Rev(DedupLoop(Rev(raw), 1, <<>>, {}))

\* results = [] ... for res in raw_results: the whole deduplication
Deduplicate(raw) == DedupLoop(raw, 1, <<>>, {})

\* SearchResult(**r): the fields of the model; the url key is dropped
ToSearchResult(r) ==
    [score      |-> r.score,
     percentage |-> r.percentage,
     dom_path   |-> r.dom_path,
     chunk_text |-> r.chunk_text,
     chunk_html |-> r.chunk_html]

\* the Field constraints of SearchResult: score in [0, 1], percentage in [0, 100]
ValidSearchResult(r) ==
    /\ r.score >= 0
    /\ r.score * 10 <= ScoreUnit
    /\ r.percentage >= 0
    /\ r.percentage <= 100

\* SearchResponse(results=..., total_chunks=..., query=...) can be built
ValidResponse(res) ==
    /\ Len(res) <= MaxResults
    /\ \A i \in 1..Len(res) : ValidSearchResult(res[i])

OkResponse(res, total, q) ==
    [status       |-> 200,
     results      |-> [i \in 1..Len(res) |-> ToSearchResult(res[i])],
     total_chunks |-> total,
     query        |-> q]

\* raise HTTPException(status_code=...)
ErrorResponse(code) ==
    [status |-> code, results |-> <<>>, total_chunks |-> 0, query |-> <<>>]

NoResponse == ErrorResponse(0)

\* one external call: what was asked, and how many matches came back (-1: it raised)
Call(op, top_k, url_filter, n) ==
    [op |-> op, top_k |-> top_k, filter |-> url_filter, n |-> n]

\* mutant: the broad search also runs when few candidates came back
NeedsFallback_FewResults(raw) == Len(raw) < UniqueLimit

\* if not raw_results: the broad search is needed
NeedsFallback(raw) == raw = <<>>

\* _ensure_index(): returns at once when self.index is set; else it creates
\* the index if Pinecone does not list it and takes the handle
EnsureIndexCreates == ~index /\ ~collection_exists

\* url_exists: if self.index is None: self.index = self.pc.Index(...)
UrlExistsControl(idx) == IF idx THEN <<>> ELSE <<"Index">>

\* mutant: _ensure_index without its first test
EnsureIndex_NoGuard(idx, exists) ==
    IF exists THEN <<"ensure", "list", "Index">>
    ELSE <<"ensure", "list", "create", "describe", "Index">>

\* the calls one _ensure_index() makes, given self.index is not None (idx)
\* and whether Pinecone lists the index: list_indexes, create_index,
\* describe_index (until ready), Index.  It has no await: it runs as one step.
EnsureIndex(idx, exists) ==
    IF idx THEN <<"ensure">>
    ELSE IF exists THEN <<"ensure", "list", "Index">>
         ELSE <<"ensure", "list", "create", "describe", "Index">>

\* the vectors stored under a url
StoredUnder(stored, u) ==
    LET Under(v) == v.metadata.url = u IN SelectSeq(stored, Under)

\* an index_chunks run at its start, and once its last batch is stored;
\* overlapped tells whether another request was suspended in its page fetch
\* when the run started
StartedRun(u, chunks, stored, overlapped) ==
    [url |-> u, chunks |-> chunks, ids |-> <<>>, done |-> FALSE,
     before |-> StoredUnder(stored, u), after |-> <<>>,
     overlapped |-> overlapped]

FinishedRun(run, stored) ==
    [run EXCEPT !.done = TRUE, !.after = StoredUnder(stored, run.url)]

\* a request arrives
Receive(u, q) ==
    /\ pc = "idle"
    /\ url' = u
    /\ query' = q
    /\ pc' = "received"
    /\ n_requests' = n_requests + 1
    /\ calls' = <<>>
    /\ response' = NoResponse
    /\ UNCHANGED <<text_chunks, normalized_url, vectors, batch_lo, raw_results,
                   broad_results, results, response_cache>>
    /\ UNCHANGED <<chunk_vars, store_vars, proc_vars>>

\* mutant: the two length limits are exclusive
Guardrails_Exclusive(u, q) ==
    /\ ValidUrl(u)
    /\ Len(q) < MaxQueryLen
    /\ Len(q) > MinQueryLen

\* the guardrails pass
Guardrails(u, q) ==
    /\ ValidUrl(u)
    /\ ~(Len(q) > MaxQueryLen)
    /\ ~(Len(q) < MinQueryLen)

\* raise HTTPException(status_code=400, ...)
Reject ==
    /\ pc = "received"
    /\ ~Guardrails(url, query)
    /\ response' = ErrorResponse(400)
    /\ pc' = "done"
    /\ UNCHANGED <<url, query, text_chunks, normalized_url, vectors, batch_lo,
                   raw_results, broad_results, results, response_cache, calls,
                   n_requests>>
    /\ UNCHANGED <<chunk_vars, store_vars, proc_vars>>

\* if cache_key in response_cache: return response_cache[cache_key]
CacheHit ==
    /\ pc = "received"
    /\ Guardrails(url, query)
    /\ CacheHas(CacheKey(url, query))
    /\ response' = CacheGet(CacheKey(url, query))
    /\ calls' = Append(calls, Call("cache", 0, CacheKey(url, query), 1))
    /\ pc' = "done"
    /\ UNCHANGED <<url, query, text_chunks, normalized_url, vectors, batch_lo,
                   raw_results, broad_results, results, response_cache,
                   n_requests>>
    /\ UNCHANGED <<chunk_vars, store_vars, proc_vars>>

\* the key is not cached: await html_parser.fetch_html(search_request.url)
CacheMiss ==
    /\ pc = "received"
    /\ Guardrails(url, query)
    /\ ~CacheHas(CacheKey(url, query))
    /\ calls' = calls \o <<Call("cache", 0, CacheKey(url, query), 0),
                           Call("fetch", 0, url, 0)>>
    /\ pc' = "fetch"
    /\ UNCHANGED <<url, query, text_chunks, normalized_url, vectors, batch_lo,
                   raw_results, broad_results, results, response,
                   response_cache, n_requests>>
    /\ UNCHANGED <<chunk_vars, store_vars, proc_vars>>

\* an exception leaves the handler: HTTPException(status_code=500, ...)
Fail500 ==
    /\ response' = ErrorResponse(500)
    /\ pc' = "done"

\* fetch_html raises (transport error, raise_for_status)
FetchFails ==
    /\ pc = "fetch"
    /\ Fail500
    /\ UNCHANGED <<url, query, text_chunks, normalized_url, vectors, batch_lo,
                   raw_results, broad_results, results, response_cache, calls,
                   n_requests>>
    /\ UNCHANGED <<chunk_vars, store_vars, proc_vars>>

\* if not html_chunks: raise HTTPException(status_code=422, ...)
FetchNoContent ==
    /\ pc = "fetch"
    /\ html_chunks' = <<>>
    /\ response' = ErrorResponse(422)
    /\ pc' = "done"
    /\ UNCHANGED <<max_tokens, overlap_tokens, result_chunks, block_idx, tokens,
                   start, chunk_index, chunk_pc, windows>>
    /\ UNCHANGED <<url, query, text_chunks, normalized_url, vectors, batch_lo,
                   raw_results, broad_results, results, response_cache, calls,
                   n_requests>>
    /\ UNCHANGED <<store_vars, proc_vars>>

\* the page has content: chunk it, normalize the url, probe the index
FetchContent(page) ==
    /\ pc = "fetch"
    /\ page # <<>>
    /\ html_chunks' = page
    /\ text_chunks' = ChunkContent(page)
    /\ normalized_url' = RStrip(url)
    /\ pc' = "exists"
    /\ UNCHANGED <<max_tokens, overlap_tokens, result_chunks, block_idx, tokens,
                   start, chunk_index, chunk_pc, windows>>
    /\ UNCHANGED <<url, query, vectors, batch_lo, raw_results, broad_results,
                   results, response, response_cache, calls, n_requests>>
    /\ UNCHANGED <<store_vars, proc_vars>>

\* vector_store.url_exists(normalized_url): self.pc.Index(self.index_name) is
\* outside the try; a client that resolves the host of the index when the
\* handle is made raises there (the index is absent, or the call fails)
UrlExistsRaises ==
    /\ pc = "exists"
    /\ ~index
    /\ Fail500
    /\ calls' = Append(calls, Call("handle", 0, normalized_url, -1))
    /\ UNCHANGED <<url, query, text_chunks, normalized_url, vectors, batch_lo,
                   raw_results, broad_results, results, response_cache,
                   n_requests>>
    /\ UNCHANGED <<chunk_vars, store_vars, proc_vars>>

\* vector_store.url_exists(normalized_url) returns True: skip the indexing
UrlExistsTrue(sees_fresh) ==
    /\ pc = "exists"
    /\ UrlExists(Visible(sees_fresh), normalized_url, collection_exists)
    /\ index' = TRUE
    /\ calls' = Append(calls,
           Call("exists", 1, normalized_url,
                Probe(Visible(sees_fresh), normalized_url, collection_exists)))
    /\ pc' = "search"
    /\ UNCHANGED <<collection_exists, index_vectors, fresh>>
    /\ UNCHANGED <<url, query, text_chunks, normalized_url, vectors, batch_lo,
                   raw_results, broad_results, results, response,
                   response_cache, n_requests>>
    /\ control' = control \o UrlExistsControl(index)
    /\ UNCHANGED <<waiting, runs>>
    /\ UNCHANGED chunk_vars

\* vector_store.url_exists(normalized_url) returns False (no match, or the
\* probe raised): index_chunks builds the vectors
UrlExistsFalse(sees_fresh, probe_ok) ==
    /\ pc = "exists"
    /\ ~UrlExists(Visible(sees_fresh), normalized_url, probe_ok /\ collection_exists)
    /\ index' = TRUE
    /\ vectors' = BuildVectors(text_chunks, normalized_url)
    /\ batch_lo' = 0
    /\ calls' = calls \o
           <<Call("exists", 1, normalized_url,
                  Probe(Visible(sees_fresh), normalized_url,
                        probe_ok /\ collection_exists)),
             Call("embed", Len(text_chunks), normalized_url, Len(text_chunks))>>
    /\ pc' = "index"
    /\ UNCHANGED <<collection_exists, index_vectors, fresh>>
    /\ UNCHANGED <<url, query, text_chunks, normalized_url, raw_results,
                   broad_results, results, response, response_cache,
                   n_requests>>
    /\ control' = control \o UrlExistsControl(index) \o EnsureIndex(TRUE, collection_exists)
    /\ runs' = Append(runs,
           [StartedRun(normalized_url, text_chunks, index_vectors, waiting # <<>>)
               EXCEPT !.ids = [i \in 1..Len(vectors') |-> vectors'[i].id]])
    /\ UNCHANGED waiting
    /\ UNCHANGED chunk_vars

\* index_chunks: self.index.upsert(vectors=batch) for the batch at batch_lo;
\* after the last batch index_chunks returns and the handler runs time.sleep(2)
UpsertBatch ==
    /\ pc = "index"
    /\ batch_lo < Len(vectors)
    /\ collection_exists \/ EnsureIndexCreates
    /\ LET batch == Batch(vectors, batch_lo)
       IN  /\ index_vectors' = Upsert(index_vectors, batch)
           /\ fresh' = fresh \cup IdsOf(batch)
           /\ calls' = Append(calls, Call("upsert", Len(batch), normalized_url, 0))
                        \o IF AfterBatch(batch_lo, vectors) = "search"
                           THEN <<Call("sleep", IndexDelay, normalized_url, 0)>>
                           ELSE <<>>
    /\ batch_lo' = batch_lo + BatchSize
    /\ pc' = AfterBatch(batch_lo, vectors)
    /\ index' = TRUE
    /\ collection_exists' = TRUE
    /\ UNCHANGED <<url, query, text_chunks, normalized_url, vectors, raw_results,
                   broad_results, results, response, response_cache, n_requests>>
    /\ runs' = IF AfterBatch(batch_lo, vectors) = "search"
               THEN [runs EXCEPT ![Len(runs)] = FinishedRun(@, index_vectors')]
               ELSE runs
    /\ UNCHANGED <<waiting, control>>
    /\ UNCHANGED chunk_vars

\* index_chunks: the upsert of the batch at batch_lo raises
UpsertFails ==
    /\ pc = "index"
    /\ batch_lo < Len(vectors)
    /\ Fail500
    /\ calls' = Append(calls, Call("upsert", Len(Batch(vectors, batch_lo)), normalized_url, -1))
    /\ UNCHANGED <<url, query, text_chunks, normalized_url, vectors, batch_lo,
                   raw_results, broad_results, results, response_cache,
                   n_requests>>
    /\ UNCHANGED <<chunk_vars, store_vars, proc_vars>>

\* raw_results = vector_store.search(query, limit=20, url_filter=normalized_url)
SearchPrimary(sees_fresh) ==
    /\ pc = "search"
    /\ collection_exists \/ EnsureIndexCreates
    /\ LET found == StoreSearch(Visible(sees_fresh), query, PrimaryLimit, normalized_url)
       IN  /\ raw_results' = found
           /\ pc' = IF NeedsFallback(found) THEN "broad" ELSE "respond"
           /\ calls' = Append(calls,
                  Call("query", PrimaryLimit, normalized_url, Len(found)))
    /\ index' = TRUE
    /\ collection_exists' = TRUE
    /\ UNCHANGED <<index_vectors, fresh>>
    /\ UNCHANGED <<url, query, text_chunks, normalized_url, vectors, batch_lo,
                   broad_results, results, response, response_cache, n_requests>>
    /\ control' = control \o EnsureIndex(index, collection_exists)
    /\ UNCHANGED <<waiting, runs>>
    /\ UNCHANGED chunk_vars

\* broad_results = vector_store.search(query, limit=10), then the manual
\* re-filter into raw_results
SearchBroad(sees_fresh) ==
    /\ pc = "broad"
    /\ collection_exists
    /\ LET found == StoreSearch(Visible(sees_fresh), query, BroadLimit, <<>>)
       IN  /\ broad_results' = found
           /\ raw_results' = raw_results \o RecoverFromBroad(found, normalized_url)
           /\ calls' = Append(calls, Call("query", BroadLimit, <<>>, Len(found)))
    /\ pc' = "respond"
    /\ UNCHANGED <<url, query, text_chunks, normalized_url, vectors, batch_lo,
                   results, response, response_cache, n_requests>>
    /\ control' = control \o EnsureIndex(index, collection_exists)
    /\ UNCHANGED <<waiting, runs>>
    /\ UNCHANGED <<chunk_vars, store_vars>>

\* vector_store.search raises
SearchFails ==
    /\ pc \in {"search", "broad"}
    /\ Fail500
    /\ calls' = Append(calls,
           IF pc = "search" THEN Call("query", PrimaryLimit, normalized_url, -1)
           ELSE Call("query", BroadLimit, <<>>, -1))
    /\ UNCHANGED <<url, query, text_chunks, normalized_url, vectors, batch_lo,
                   raw_results, broad_results, results, response_cache,
                   n_requests>>
    /\ control' = control \o EnsureIndex(index, collection_exists)
    /\ UNCHANGED <<waiting, runs>>
    /\ UNCHANGED <<chunk_vars, store_vars>>

\* deduplicate, build the SearchResponse, cache it and return it
Respond ==
    /\ pc = "respond"
    /\ LET kept == Deduplicate(raw_results)
           built == OkResponse(kept, Len(text_chunks), query)
       IN  /\ ValidResponse(kept)
           /\ results' = kept
           /\ response' = built
           /\ response_cache' = CachePut(response_cache, CacheKey(url, query), built)
    /\ pc' = "done"
    /\ UNCHANGED <<url, query, text_chunks, normalized_url, vectors, batch_lo,
                   raw_results, broad_results, calls, n_requests>>
    /\ UNCHANGED <<chunk_vars, store_vars, proc_vars>>

\* deduplicate; SearchResponse(...) raises a validation error: status 500
RespondInvalid ==
    /\ pc = "respond"
    /\ LET kept == Deduplicate(raw_results)
       IN  /\ ~ValidResponse(kept)
           /\ results' = kept
    /\ Fail500
    /\ UNCHANGED <<url, query, text_chunks, normalized_url, vectors, batch_lo,
                   raw_results, broad_results, response_cache, calls,
                   n_requests>>
    /\ UNCHANGED <<chunk_vars, store_vars, proc_vars>>

-----------------------------------------------------------------------------
\* Inputs of chunk_content

TextAlphabet == {"A", "a", " "}

\* element.get_text(separator=' ', strip=True): no whitespace at either end
Stripped(text) ==
    /\ Len(text) >= 1
    /\ IsToken(text[1])
    /\ IsToken(text[Len(text)])

TextsUpTo(n) ==
    {t \in UNION {[1..k -> TextAlphabet] : k \in 1..n} : Stripped(t)}

Tags == {"p", "div"}

\* str(element)[:2000]
HtmlOf(tag, text) == <<"<" \o tag \o ">">> \o text

\* get_dom_path(element)
DomPathOf(tag) == "body > " \o tag

\* the lists extract_content_chunks can return: at most k more blocks holding
\* at most budget characters together, positions counted from pos
RECURSIVE BlockLists(_, _, _)
BlockLists(k, budget, pos) ==
    IF k = 0 \/ budget = 0 THEN {<<>>}
    ELSE {<<>>} \cup
         UNION { UNION { { <<HTMLChunk(t, HtmlOf(tag, t), DomPathOf(tag), pos)>> \o rest :
                             rest \in BlockLists(k - 1, budget - Len(t), pos + 1) } :
                         tag \in Tags } :
                 t \in TextsUpTo(budget) }

\* a block of n tokens, for the deployed window size
LongText(n) == [i \in 1..n |-> IF i % 7 = 0 THEN "A" ELSE "a"]

LongLens ==
    {DefaultMaxTokens,
     DefaultMaxTokens + ScenarioExtra,
     2 * DefaultMaxTokens - DefaultOverlapTokens + 1}

LongBlockLists ==
    { <<HTMLChunk(LongText(n), HtmlOf("p", <<>>), DomPathOf("p"), 0)>> : n \in LongLens }

\* the handler and the store at rest
RequestIdle ==
    /\ pc = "idle"
    /\ url = <<>>
    /\ query = <<>>
    /\ text_chunks = <<>>
    /\ normalized_url = <<>>
    /\ vectors = <<>>
    /\ batch_lo = 0
    /\ raw_results = <<>>
    /\ broad_results = <<>>
    /\ results = <<>>
    /\ response = NoResponse
    /\ calls = <<>>
    /\ n_requests = 0
    /\ waiting = <<>>
    /\ control = <<>>
    /\ runs = <<>>

ChunkerIdle ==
    /\ result_chunks = <<>>
    /\ block_idx = 0
    /\ tokens = <<>>
    /\ start = 0
    /\ chunk_index = 0
    /\ windows = <<>>

InitChunk ==
    /\ \/ /\ max_tokens \in 1..MaxMaxTokens
          /\ overlap_tokens \in 0..(max_tokens - 1)
          /\ html_chunks \in BlockLists(MaxBlocks, MaxTextLen, 0)
       \/ /\ max_tokens = DefaultMaxTokens
          /\ overlap_tokens = DefaultOverlapTokens
          /\ html_chunks \in LongBlockLists
    /\ ChunkerIdle
    /\ chunk_pc = "for"
    /\ RequestIdle
    /\ index = FALSE
    /\ collection_exists = FALSE
    /\ index_vectors = <<>>
    /\ fresh = {}
    /\ response_cache = {}

NextChunk ==
    \/ ChunkSingle
    \/ ChunkSplitBegin
    \/ ChunkWindow
    \/ ChunkWindowExit
    \/ ChunkReturn

SpecChunk == InitChunk /\ [][NextChunk]_vars

\* chunk_content is straight-line code: once called it takes its next step
SpecChunkFair == InitChunk /\ [][NextChunk]_vars /\ WF_vars(NextChunk)

-----------------------------------------------------------------------------
\* Inputs of the /search handler

\* the text "w<i> z" with its whitespace varied: a single space, two spaces,
\* a tab, and whitespace around it
Text(i, v) ==
    CASE v = 0 -> <<WordTable[i], " ", "z">>
      [] v = 1 -> <<WordTable[i], " ", " ", "z">>
      [] v = 2 -> <<WordTable[i], "\t", "z">>
      [] OTHER -> <<" ", WordTable[i], " ", "z", "\t">>

\* n texts over d words: the words in turn, the whitespace varied per turn
PageTexts(n, d) ==
    [i \in 1..n |-> Text(((i - 1) % d) + 1, ((i - 1) \div d) % NumVariants)]

TagAt(pos) == IF pos % 2 = 0 THEN "p" ELSE "div"

\* extract_content_chunks: one HTMLChunk per text, positions from 0
PageBlocks(texts) ==
    [i \in 1..Len(texts) |->
        HTMLChunk(texts[i], HtmlOf(TagAt(i - 1), texts[i]), DomPathOf(TagAt(i - 1)), i - 1)]

\* what the page of the request can hold when it is fetched
\* a page long enough for three upsert batches, the last one of one vector
BigPage == PageBlocks(PageTexts(2 * BatchSize + 1, DupWords))

OriginA == <<"https://a.com">>

\* the long page is the one served at the bare origin
FetchedPages(u) ==
    {PageBlocks(<<Text(1, 0)>>),
     PageBlocks(<<Text(2, 0), Text(1, 2), Text(2, 1)>>)}
    \cup (IF u = OriginA THEN {BigPage} ELSE {})

OriginB == <<"https://b.com">>

Slashes(k) == [i \in 1..k |-> Slash]

RequestUrls ==
    {OriginA \o Slashes(k) : k \in 0..MaxSlashes} \cup {<<>>, <<Slash>>}

QueryOf(c, n) == [i \in 1..n |-> c]

Queries ==
    {QueryOf("x", MinQueryLen - 1), QueryOf("x", MinQueryLen),
     QueryOf("y", MinQueryLen), QueryOf("y", MaxQueryLen),
     QueryOf("y", MaxQueryLen + 1)}

\* the vectors an earlier indexing of a page left under source_url
StoredVectors(source_url, texts) ==
    BuildVectors(ChunkContent(PageBlocks(texts)), source_url)

StoredPagesA ==
    {<<>>, PageTexts(2, 1), PageTexts(LargeN, DupWords),
     PageTexts(LargeN, LargeN \div 2), PageTexts(LargeN, LargeN)}

StoredPagesSlash == {<<>>, PageTexts(2, 1), PageTexts(LargeN, LargeN \div 2)}

StoredPagesB == {<<>>, PageTexts(1, 1)}

RECURSIVE SlashVectors(_, _)
SlashVectors(pages, k) ==
    IF k = 0 THEN <<>>
    ELSE SlashVectors(pages, k - 1) \o StoredVectors(OriginA \o Slashes(k), pages[k])

\* a response cached by an earlier request
PriorCache ==
    LET q == QueryOf("x", MinQueryLen)
    IN  {[key |-> CacheKey(OriginA, q), value |-> OkResponse(<<>>, 1, q)]}

Init ==
    /\ max_tokens = DefaultMaxTokens
    /\ overlap_tokens = DefaultOverlapTokens
    /\ html_chunks = <<>>
    /\ ChunkerIdle
    /\ chunk_pc = "idle"
    /\ RequestIdle
    /\ index = FALSE
    /\ fresh = {}
    /\ response_cache \in {{}, PriorCache}
    /\ \/ /\ collection_exists = FALSE
          /\ index_vectors = <<>>
       \/ /\ collection_exists = TRUE
          /\ \E pa \in StoredPagesA, pb \in StoredPagesB,
                ps \in [1..MaxSlashes -> StoredPagesSlash] :
                index_vectors = StoredVectors(OriginB, pb)
                                \o SlashVectors(ps, MaxSlashes)
                                \o StoredVectors(OriginA, pa)

Next ==
    \/ \E u \in RequestUrls, q \in Queries : Receive(u, q)
    \/ Reject
    \/ CacheHit
    \/ CacheMiss
    \/ FetchFails
    \/ FetchNoContent
    \/ \E page \in FetchedPages(url) : FetchContent(page)
    \/ UrlExistsRaises
    \/ \E sees_fresh \in BOOLEAN : UrlExistsTrue(sees_fresh)
    \/ \E sees_fresh, probe_ok \in BOOLEAN : UrlExistsFalse(sees_fresh, probe_ok)
    \/ UpsertBatch
    \/ UpsertFails
    \/ \E sees_fresh \in BOOLEAN : SearchPrimary(sees_fresh)
    \/ \E sees_fresh \in BOOLEAN : SearchBroad(sees_fresh)
    \/ SearchFails
    \/ Respond
    \/ RespondInvalid

Spec == Init /\ [][Next]_vars

-----------------------------------------------------------------------------
\* The process: the handler is a coroutine on one event loop.  Its only await
\* is html_parser.fetch_html; everything else, the VectorStore calls and
\* time.sleep included, runs without yielding.  So another request runs only
\* while this one waits for its page.

\* a request arrives while the loop is free
ReceiveProc(u, q) ==
    /\ n_requests < MaxRequests
    /\ Receive(u, q)

\* await html_parser.fetch_html(...): the request is suspended
Await ==
    /\ pc = "fetch"
    /\ waiting' = Append(waiting, [url |-> url, query |-> query, calls |-> calls])
    /\ url' = <<>>
    /\ query' = <<>>
    /\ calls' = <<>>
    /\ pc' = "idle"
    /\ UNCHANGED <<text_chunks, normalized_url, vectors, batch_lo, raw_results,
                   broad_results, results, response, response_cache, n_requests>>
    /\ UNCHANGED <<control, runs>>
    /\ UNCHANGED <<chunk_vars, store_vars>>

\* the page of the k-th suspended request is there: the loop resumes it
Resume(k) ==
    /\ pc = "idle"
    /\ k \in 1..Len(waiting)
    /\ url' = waiting[k].url
    /\ query' = waiting[k].query
    /\ calls' = waiting[k].calls
    /\ waiting' = SubSeq(waiting, 1, k - 1) \o SubSeq(waiting, k + 1, Len(waiting))
    /\ response' = NoResponse
    /\ pc' = "fetch"
    /\ UNCHANGED <<text_chunks, normalized_url, vectors, batch_lo, raw_results,
                   broad_results, results, response_cache, n_requests>>
    /\ UNCHANGED <<control, runs>>
    /\ UNCHANGED <<chunk_vars, store_vars>>

\* the handler has returned or raised: its locals are gone
Finish ==
    /\ pc = "done"
    /\ pc' = "idle"
    /\ url' = <<>>
    /\ query' = <<>>
    /\ text_chunks' = <<>>
    /\ normalized_url' = <<>>
    /\ vectors' = <<>>
    /\ batch_lo' = 0
    /\ raw_results' = <<>>
    /\ broad_results' = <<>>
    /\ results' = <<>>
    /\ response' = NoResponse
    /\ calls' = <<>>
    /\ html_chunks' = <<>>
    /\ UNCHANGED <<max_tokens, overlap_tokens, result_chunks, block_idx, tokens,
                   start, chunk_index, chunk_pc, windows>>
    /\ UNCHANGED <<response_cache, n_requests>>
    /\ UNCHANGED <<store_vars, proc_vars>>

\* the requests and the pages of the process
\* https://a.com:80
OriginAPort == OriginA \o <<Colon, "8", "0">>

\* the query 80:xx
PortQuery == <<"8", "0", Colon>> \o QueryOf("x", MinQueryLen)

ProcUrls == {OriginA, OriginA \o <<Slash>>}

ProcQueries ==
    {QueryOf("x", MinQueryLen - 1), QueryOf("x", MinQueryLen), QueryOf("y", MinQueryLen)}

ProcPages ==
    {PageBlocks(<<Text(1, 0)>>),
     PageBlocks(<<Text(2, 0), Text(1, 2), Text(2, 1)>>)}

\* the process starts: nothing cached, no handle; the collection may or may
\* not exist yet, and may hold another page
InitProc ==
    /\ max_tokens = DefaultMaxTokens
    /\ overlap_tokens = DefaultOverlapTokens
    /\ html_chunks = <<>>
    /\ ChunkerIdle
    /\ chunk_pc = "idle"
    /\ RequestIdle
    /\ index = FALSE
    /\ fresh = {}
    /\ response_cache = {}
    /\ \/ /\ collection_exists = FALSE
          /\ index_vectors = <<>>
       \/ /\ collection_exists = TRUE
          /\ index_vectors \in {<<>>, StoredVectors(OriginB, PageTexts(1, 1))}

NextProc ==
    \/ \E u \in ProcUrls, q \in ProcQueries : ReceiveProc(u, q)
    \/ Reject
    \/ CacheHit
    \/ CacheMiss
    \/ Await
    \/ \E k \in 1..MaxRequests : Resume(k)
    \/ FetchFails
    \/ FetchNoContent
    \/ \E page \in ProcPages : FetchContent(page)
    \/ UrlExistsRaises
    \/ \E sees_fresh \in BOOLEAN : UrlExistsTrue(sees_fresh)
    \/ \E sees_fresh, probe_ok \in BOOLEAN : UrlExistsFalse(sees_fresh, probe_ok)
    \/ UpsertBatch
    \/ UpsertFails
    \/ \E sees_fresh \in BOOLEAN : SearchPrimary(sees_fresh)
    \/ \E sees_fresh \in BOOLEAN : SearchBroad(sees_fresh)
    \/ SearchFails
    \/ Respond
    \/ RespondInvalid
    \/ Finish

SpecProc == InitProc /\ [][NextProc]_vars

-----------------------------------------------------------------------------
\* The process with requests whose url or query holds a colon: the same
\* handler, the same event loop, one page.

CacheUrls == {OriginA, OriginAPort}

CacheQueries == {QueryOf("x", MinQueryLen - 1), QueryOf("x", MinQueryLen), PortQuery}

CachePages == {PageBlocks(<<Text(1, 0)>>)}

NextCache ==
    \/ \E u \in CacheUrls, q \in CacheQueries : ReceiveProc(u, q)
    \/ Reject
    \/ CacheHit
    \/ CacheMiss
    \/ Await
    \/ \E k \in 1..MaxRequests : Resume(k)
    \/ FetchFails
    \/ FetchNoContent
    \/ \E page \in CachePages : FetchContent(page)
    \/ UrlExistsRaises
    \/ \E sees_fresh \in BOOLEAN : UrlExistsTrue(sees_fresh)
    \/ \E sees_fresh, probe_ok \in BOOLEAN : UrlExistsFalse(sees_fresh, probe_ok)
    \/ UpsertBatch
    \/ UpsertFails
    \/ \E sees_fresh \in BOOLEAN : SearchPrimary(sees_fresh)
    \/ \E sees_fresh \in BOOLEAN : SearchBroad(sees_fresh)
    \/ SearchFails
    \/ Respond
    \/ RespondInvalid
    \/ Finish

SpecCache == InitProc /\ [][NextCache]_vars

-----------------------------------------------------------------------------
\* Properties of chunk_content

\* the blocks the for loop has finished
DoneBlocks == 1..block_idx

BlockTokens(b) == Encode(html_chunks[b].text)

\* the positions in result_chunks of the segments of block b, in order
SegsOf(b) == {i \in 1..Len(windows) : windows[i].block = b}

IsSplitBlock(b) == Len(BlockTokens(b)) > max_tokens

\* consecutive segments of one block
ConsecutivePairs ==
    {i \in 1..(Len(windows) - 1) : windows[i].block = windows[i + 1].block}

CeilDiv(a, d) == (a + d - 1) \div d

\* C1: every emitted segment, of the single-chunk branch and of every window
\* of the sliding branch, has token_count <= max_tokens, and token_count is
\* the number of tokens of the slice it was cut from (and of its content).
C1_TokenCountBounded ==
    \A i \in 1..Len(result_chunks) :
        /\ result_chunks[i].token_count <= max_tokens
        /\ result_chunks[i].token_count = windows[i].hi - windows[i].lo
        /\ result_chunks[i].token_count = Len(Encode(result_chunks[i].content))

C1_Witness ==
    /\ chunk_pc = "returned"
    /\ \E i, j \in 1..Len(result_chunks) :
          /\ windows[i].split
          /\ result_chunks[i].token_count = max_tokens
          /\ ~windows[j].split
          /\ result_chunks[j].token_count < max_tokens

\* C2: two consecutive windows of a block longer than max_tokens share exactly
\* overlap_tokens tokens: the next window starts overlap_tokens before the end
\* of the previous one and reaches at least that end; the shared tokens are
\* the same in both contents.  With 520 tokens, max_tokens = 500 and
\* overlap_tokens = 50 the windows are exactly [0:500] and [450:520].
C2_ExactOverlap ==
    /\ \A i \in ConsecutivePairs :
          /\ windows[i + 1].lo = windows[i].hi - overlap_tokens
          /\ windows[i + 1].hi >= windows[i].hi
          /\ windows[i].hi - windows[i + 1].lo = overlap_tokens
          /\ LET a == Encode(result_chunks[i].content)
                 b == Encode(result_chunks[i + 1].content)
             IN  SubSeq(a, Len(a) - overlap_tokens + 1, Len(a))
                     = SubSeq(b, 1, overlap_tokens)
    /\ ( /\ chunk_pc = "returned"
         /\ max_tokens = DefaultMaxTokens
         /\ overlap_tokens = DefaultOverlapTokens
         /\ Len(BlockTokens(1)) = DefaultMaxTokens + ScenarioExtra )
       => /\ Len(windows) = 2
          /\ windows[1].lo = 0
          /\ windows[1].hi = DefaultMaxTokens
          /\ windows[2].lo = DefaultMaxTokens - DefaultOverlapTokens
          /\ windows[2].hi = DefaultMaxTokens + ScenarioExtra

C2_Witness ==
    /\ chunk_pc = "returned"
    /\ overlap_tokens > 0
    /\ \E i \in ConsecutivePairs :
          /\ (i + 1) \in ConsecutivePairs
          /\ windows[i + 2].hi - windows[i + 2].lo < max_tokens

\* C3: a block of T > max_tokens tokens yields
\* ceil((T - overlap_tokens) / (max_tokens - overlap_tokens)) segments.
C3_WindowCount ==
    \A b \in DoneBlocks :
        IsSplitBlock(b) =>
            Cardinality(SegsOf(b)) =
                CeilDiv(Len(BlockTokens(b)) - overlap_tokens,
                        max_tokens - overlap_tokens)

C3_Witness ==
    /\ chunk_pc = "returned"
    /\ overlap_tokens > 0
    /\ \E b \in DoneBlocks :
          /\ IsSplitBlock(b)
          /\ Cardinality(SegsOf(b)) >= 3
          /\ (Len(BlockTokens(b)) - overlap_tokens) % (max_tokens - overlap_tokens) # 0

\* C4: the windows of a block of T > max_tokens tokens cover every token
\* offset of [0, T): the first starts at 0, the last ends at T, and each next
\* window starts no later than the previous one ended.
C4_Coverage ==
    \A b \in DoneBlocks :
        IsSplitBlock(b) =>
            LET segs == SegsOf(b)
                T == Len(BlockTokens(b))
                first == CHOOSE i \in segs : \A j \in segs : i <= j
                last == CHOOSE i \in segs : \A j \in segs : j <= i
            IN  /\ segs # {}
                /\ windows[first].lo = 0
                /\ windows[last].hi = T
                /\ \A i \in segs \ {last} : windows[i + 1].lo <= windows[i].hi
                /\ \A k \in 0..(T - 1) :
                      \E i \in segs : windows[i].lo <= k /\ k < windows[i].hi

C4_Witness ==
    /\ chunk_pc = "returned"
    /\ overlap_tokens = 0
    /\ \E b \in DoneBlocks :
          /\ IsSplitBlock(b)
          /\ Cardinality(SegsOf(b)) >= 2
          /\ Len(BlockTokens(b)) % max_tokens # 0

\* C5: a block of T <= max_tokens tokens (T = max_tokens included) yields
\* exactly one segment: chunk_index 0, token_count T, the block's text
\* verbatim, and the block's html, dom_path and position.
C5_SingleSegment ==
    \A b \in DoneBlocks :
        ~IsSplitBlock(b) =>
            /\ Cardinality(SegsOf(b)) = 1
            /\ \A i \in SegsOf(b) :
                  /\ result_chunks[i].chunk_index = 0
                  /\ result_chunks[i].token_count = Len(BlockTokens(b))
                  /\ result_chunks[i].content = html_chunks[b].text
                  /\ result_chunks[i].html = html_chunks[b].html
                  /\ result_chunks[i].dom_path = html_chunks[b].dom_path
                  /\ result_chunks[i].position = html_chunks[b].position

C5_Witness ==
    /\ chunk_pc = "returned"
    /\ \E b \in DoneBlocks :
          /\ Len(BlockTokens(b)) = max_tokens
          /\ Decode(BlockTokens(b)) # html_chunks[b].text
          /\ html_chunks[b].position > 0
          /\ Cardinality(SegsOf(b)) = 1

\* C18: for a block of T > max_tokens tokens, with 0 <= overlap_tokens <
\* max_tokens, the windowing loop terminates: every iteration moves start
\* strictly forward, the iteration that emits the window ending at T leaves
\* start at T so that the loop condition fails next, and chunk_content
\* returns.
C18_LoopTerminates ==
    /\ [][ChunkWindow =>
             /\ start' > start
             /\ start' <= Len(tokens)
             /\ WindowEnd(start, tokens, max_tokens) = Len(tokens) => start' = Len(tokens)
             /\ WindowEnd(start, tokens, max_tokens) < Len(tokens) => start' < Len(tokens)]_vars
    /\ [][ChunkWindowExit => windows[Len(windows)].hi = Len(tokens)]_vars
    /\ <>(chunk_pc = "returned")

C18_Witness ==
    /\ chunk_pc = "returned"
    /\ overlap_tokens = max_tokens - 1
    /\ overlap_tokens > 0
    /\ \E b \in DoneBlocks :
          /\ IsSplitBlock(b)
          /\ Cardinality(SegsOf(b)) = Len(BlockTokens(b)) - overlap_tokens
          /\ Cardinality(SegsOf(b)) >= 3

\* C19: in the segment list of a page no two segments share the pair
\* (position, chunk_index); a segment carries the position of its block; the
\* chunk_index values of a block are 0, 1, ..., n-1 in emission order; and
\* the segments follow the order of the blocks.
C19_UniquePositionIndex ==
    /\ \A i, j \in 1..Len(result_chunks) :
          i # j =>
              <<result_chunks[i].position, result_chunks[i].chunk_index>>
                  # <<result_chunks[j].position, result_chunks[j].chunk_index>>
    /\ \A i \in 1..Len(result_chunks) :
          /\ result_chunks[i].position = html_chunks[windows[i].block].position
          /\ result_chunks[i].chunk_index =
                 Cardinality({j \in 1..(i - 1) : windows[j].block = windows[i].block})
    /\ \A i \in 1..(Len(result_chunks) - 1) : windows[i].block <= windows[i + 1].block
    /\ \A b \in DoneBlocks : SegsOf(b) # {}

C19_Witness ==
    /\ chunk_pc = "returned"
    /\ Len(html_chunks) = 2
    /\ Cardinality(SegsOf(1)) >= 2
    /\ Cardinality(SegsOf(2)) >= 2
    /\ html_chunks[1].position # html_chunks[2].position

-----------------------------------------------------------------------------
\* Properties of the /search handler

\* the index queries (VectorStore.search) of the request, in order
QueryCalls ==
    LET IsQuery(c) == c.op = "query" IN SelectSeq(calls, IsQuery)

\* the request ran the deduplication (it was not answered from the cache)
Deduplicated == pc = "done" /\ Len(QueryCalls) >= 1 /\ QueryCalls[Len(QueryCalls)].n >= 0

Succeeded == pc = "done" /\ response.status = 200

\* a text with every whitespace run collapsed to one space and the ends
\* trimmed: a whitespace character stays (as a space) iff a word ends just
\* before it and another word follows
Collapsed(text) ==
    LET Stays(i) ==
            \/ text[i] \notin Whitespace
            \/ /\ i > 1
               /\ text[i - 1] \notin Whitespace
               /\ \E j \in (i + 1)..Len(text) : text[j] \notin Whitespace
        kept == {i \in 1..Len(text) : Stays(i)}
        Nth(k) == CHOOSE i \in kept : Cardinality({j \in kept : j < i}) = k - 1
    IN  [k \in 1..Cardinality(kept) |->
            IF text[Nth(k)] \in Whitespace THEN " " ELSE text[Nth(k)]]

\* the collapsed chunk_text of each entry of a list
RECURSIVE CollapsedTexts(_)
CollapsedTexts(list) ==
    IF list = <<>> THEN <<>>
    ELSE <<Collapsed(Head(list).chunk_text)>> \o CollapsedTexts(Tail(list))

\* given the collapsed texts of the candidates: the candidates that are the
\* first of their signature, in rank order
FirstOfSignature(sigs) ==
    {i \in 1..Len(sigs) : \A j \in 1..(i - 1) : sigs[j] # sigs[i]}

\* a url without its trailing slashes
StripTrailing(u) ==
    LET last == {i \in 1..Len(u) : u[i] # Slash}
        n == IF last = {} THEN 0 ELSE CHOOSE i \in last : \A j \in last : j <= i
    IN  SubSeq(u, 1, n)

\* C6: a successful request, by the filtered query or by the fallback,
\* returns no two results whose chunk_text is the same once whitespace runs
\* are collapsed to one space and the ends trimmed.
C6_NoDuplicateContent ==
    Succeeded =>
        LET sigs == CollapsedTexts(response.results)
        IN  \A i, j \in 1..Len(sigs) : i # j => sigs[i] # sigs[j]

C6_Witness ==
    /\ Succeeded
    /\ Len(response.results) >= 2
    /\ LET sigs == CollapsedTexts(raw_results)
       IN  /\ \E i, j \in 1..Len(raw_results) :
                 /\ i # j
                 /\ raw_results[i].chunk_text # raw_results[j].chunk_text
                 /\ sigs[i] = sigs[j]
           /\ \E k \in 1..Len(raw_results) : raw_results[k].chunk_text # sigs[k]

\* C7: the deduplicated list is an order-preserving subsequence of the
\* candidates: each kept entry is the first candidate of its signature, the
\* kept entries keep the rank order, and a later candidate of a kept
\* signature is dropped whatever its dom_path.
C7_FirstOccurrenceKept ==
    Deduplicated =>
        LET sigs == CollapsedTexts(raw_results)
            kept == CollapsedTexts(results)
            firsts == FirstOfSignature(sigs)
            Pos(k) == CHOOSE i \in firsts : sigs[i] = kept[k]
        IN  /\ \A k \in 1..Len(results) :
                  /\ \E i \in firsts : sigs[i] = kept[k]
                  /\ results[k] = raw_results[Pos(k)]
            /\ \A k \in 1..(Len(results) - 1) : Pos(k) < Pos(k + 1)
            /\ Succeeded =>
                  response.results = [k \in 1..Len(results) |-> ToSearchResult(results[k])]

C7_Witness ==
    /\ Deduplicated
    /\ Succeeded
    /\ \E i, j \in 1..Len(raw_results) :
          /\ i < j
          /\ raw_results[i].dom_path # raw_results[j].dom_path
          /\ Collapsed(raw_results[i].chunk_text) = Collapsed(raw_results[j].chunk_text)
          /\ \E k \in 1..Len(results) : results[k] = raw_results[i]
          /\ \A k \in 1..Len(results) : results[k] # raw_results[j]
    /\ Len(results) >= 2

\* C8: a successful request returns at most 10 results; when the candidates
\* hold more than 10 distinct signatures the deduplicated list is exactly the
\* first 10 candidates that are the first of their signature.
C8_AtMostTenResults ==
    /\ Succeeded => Len(response.results) <= 10
    /\ Deduplicated =>
          LET firsts == FirstOfSignature(CollapsedTexts(raw_results))
              top == {i \in firsts : Cardinality({j \in firsts : j < i}) < 10}
              Nth(k) == CHOOSE i \in top : Cardinality({j \in top : j < i}) = k - 1
          IN  /\ Len(results) <= 10
              /\ Cardinality(firsts) > 10 =>
                    /\ Len(results) = 10
                    /\ \A k \in 1..10 : results[k] = raw_results[Nth(k)]

C8_Witness ==
    /\ Succeeded
    /\ Deduplicated
    /\ Len(QueryCalls) = 1
    /\ Len(raw_results) = PrimaryLimit
    /\ Cardinality(FirstOfSignature(CollapsedTexts(raw_results))) > 10
    /\ Len(response.results) = 10

\* C9: within a request the unfiltered query is issued iff the url-filtered
\* query returned no match: the first query is the filtered one, a second
\* query exists only after an empty first one and is unfiltered, and when the
\* filtered query returns a match it stays the only query of the request.
C9_FallbackIffEmpty ==
    LET qs == QueryCalls
    IN  /\ Len(qs) <= 2
        /\ Len(qs) >= 1 =>
              /\ qs[1].filter = normalized_url
              /\ qs[1].filter # <<>>
              /\ qs[1].top_k = 20
        /\ Len(qs) = 2 =>
              /\ qs[1].n = 0
              /\ qs[2].filter = <<>>
              /\ qs[2].top_k = 10
        /\ (Len(qs) >= 1 /\ qs[1].n > 0) => (Len(qs) = 1 /\ pc \in {"respond", "done"})
        /\ (Len(qs) = 1 /\ qs[1].n = 0) => pc = "broad"
        /\ pc = "broad" => (Len(qs) = 1 /\ qs[1].n = 0)

C9_Witness ==
    /\ Succeeded
    /\ Len(QueryCalls) = 1
    /\ QueryCalls[1].n > 0
    /\ \E i \in 1..Len(index_vectors) : index_vectors[i].metadata.url # normalized_url

\* C10: after the fallback the candidates are exactly the matches of the
\* unfiltered top-10 query, in the returned order, whose url without its
\* trailing slashes is the normalized url of the request; and no result of
\* any request carries the url of another page.
C10_FallbackRefilter ==
    /\ (pc \in {"respond", "done"} /\ Len(QueryCalls) = 2 /\ QueryCalls[2].n >= 0) =>
          LET keep == {i \in 1..Len(broad_results) :
                          StripTrailing(broad_results[i].url) = normalized_url}
              Nth(k) == CHOOSE i \in keep : Cardinality({j \in keep : j < i}) = k - 1
          IN  /\ Len(broad_results) <= 10
              /\ QueryCalls[2].n = Len(broad_results)
              /\ Len(raw_results) = Cardinality(keep)
              /\ \A k \in 1..Len(raw_results) : raw_results[k] = broad_results[Nth(k)]
    /\ Len(QueryCalls) >= 1 =>
          /\ normalized_url = StripTrailing(url)
          /\ \A i \in 1..Len(raw_results) :
                StripTrailing(raw_results[i].url) = StripTrailing(url)
          /\ \A i \in 1..Len(results) :
                StripTrailing(results[i].url) = StripTrailing(url)

C10_Witness ==
    /\ Succeeded
    /\ Len(QueryCalls) = 2
    /\ url = OriginA
    /\ Len(broad_results) = 3
    /\ Len(raw_results) = 2
    /\ \A i \in 1..2 : raw_results[i].url = OriginA \o <<Slash>>
    /\ Len(response.results) >= 1

-----------------------------------------------------------------------------
\* Properties of the request path: validation, probe, indexing, query

CallsAt(op) == {i \in 1..Len(calls) : calls[i].op = op}

RECURSIVE SumTopK(_)
SumTopK(cs) == IF cs = <<>> THEN 0 ELSE Head(cs).top_k + SumTopK(Tail(cs))

\* the vectors the collection holds, as a set
StoredSet == {index_vectors[j] : j \in 1..Len(index_vectors)}

\* the upserts of the request that came back without raising
UpsertsDone ==
    LET Ok(c) == c.op = "upsert" /\ c.n >= 0 IN SelectSeq(calls, Ok)

\* C11: when the exists probe of the normalized url returns a match, the
\* request makes no embedding call, no upsert and no delay, and its next
\* call is the url-filtered query; when the probe returns none, every
\* segment has been embedded in one call and upserted, and the delay has
\* passed, before the url-filtered query is issued.
C11_IndexBeforeQuery ==
    \A e \in CallsAt("exists") :
        IF calls[e].n >= 1
        THEN /\ CallsAt("embed") \cup CallsAt("upsert") \cup CallsAt("sleep") = {}
             /\ e < Len(calls) =>
                    /\ calls[e + 1].op = "query"
                    /\ calls[e + 1].filter = normalized_url
                    /\ calls[e + 1].filter # <<>>
             /\ e = Len(calls) => pc = "search"
        ELSE \A q \in CallsAt("query") :
                /\ e < q
                /\ Cardinality(CallsAt("embed")) = 1
                /\ \A m \in CallsAt("embed") : e < m /\ calls[m].top_k = Len(text_chunks)
                /\ \A u \in CallsAt("upsert") : u < q /\ calls[u].n >= 0
                /\ SumTopK(UpsertsDone) = Len(text_chunks)
                /\ \E d \in CallsAt("sleep") :
                      /\ d < q
                      /\ calls[d].top_k = 2
                      /\ \A u \in CallsAt("upsert") : u < d
                /\ LET built == BuildVectors(text_chunks, normalized_url)
                       held == StoredSet
                   IN  \A i \in 1..Len(built) : built[i] \in held

C11_Witness ==
    /\ pc = "done"
    /\ response.status = 200
    /\ \E e \in CallsAt("exists") : calls[e].n = 0
    /\ Cardinality(CallsAt("upsert")) = 3
    /\ CallsAt("query") # {}

\* a url with a scheme and a host, and a query of 2 to 200 characters
AcceptableRequest(u, q) ==
    /\ u # <<>>
    /\ u[1] # Slash
    /\ Len(q) >= 2
    /\ Len(q) <= 200

\* the request has left the guardrails
PastGuardrails == pc \notin {"idle", "received"}

\* C12: a request whose url is not a well-formed absolute url, or whose
\* query has fewer than 2 or more than 200 characters, ends with status 400
\* having made no cache lookup, fetch, embedding or index call, with the
\* cache and the index as they were; a request with a well-formed url and a
\* query of 2 to 200 characters (2 and 200 included) is not rejected and
\* reaches the cache lookup.
C12_RejectedBeforeWork ==
    /\ (PastGuardrails /\ ~AcceptableRequest(url, query)) =>
          /\ pc = "done"
          /\ response.status = 400
          /\ calls = <<>>
          /\ response_cache \in {{}, PriorCache}
          /\ ~index
          /\ fresh = {}
    /\ (PastGuardrails /\ AcceptableRequest(url, query)) =>
          /\ response.status # 400
          /\ Len(calls) >= 1
          /\ calls[1].op = "cache"

C12_Witness ==
    /\ pc = "done"
    /\ response.status = 400
    /\ ValidUrl(url)
    /\ Len(query) = 201
    /\ response_cache # {}

\* the matches VectorStore.search has formatted for this request
Formatted == raw_results \o broad_results

\* C13: every result made from a match of the index, whatever its raw
\* similarity (a little above 1, or negative), has a score in [0, 1], a
\* percentage in [0, 100], and percentage = floor(score * 100) of the
\* reported score.  Scores are in units of 0.0001.
C13_ScoreInUnitRange ==
    \A i \in 1..Len(Formatted) :
        /\ Formatted[i].score >= 0
        /\ Formatted[i].score <= 10000
        /\ Formatted[i].percentage >= 0
        /\ Formatted[i].percentage <= 100
        /\ Formatted[i].percentage = Formatted[i].score \div 100

\* the upsert calls of the request, in order
UpsertCalls ==
    LET IsUpsert(c) == c.op = "upsert" IN SelectSeq(calls, IsUpsert)

\* C14: the upsert calls of index_chunks carry the consecutive batches of at
\* most 100 vectors, in order; when the upsert of batch k raises, the vectors
\* of batches 1..k-1 are stored, no further batch is sent, and the request
\* ends with status 500, no query issued and nothing cached.
C14_BatchesInOrder ==
    LET ups == UpsertCalls
        held == StoredSet
    IN  /\ \A k \in 1..Len(ups) :
              /\ ups[k].top_k <= 100
              /\ ups[k].top_k = Min(100, Len(vectors) - 100 * (k - 1))
              /\ ups[k].top_k >= 1
              /\ k < Len(ups) => ups[k].n >= 0
              /\ \A i \in 1..Min(100 * (k - 1), Len(vectors)) : vectors[i] \in held
              /\ ups[k].n >= 0 =>
                    \A i \in 1..Min(100 * k, Len(vectors)) : vectors[i] \in held
        /\ (Len(ups) >= 1 /\ ups[Len(ups)].n < 0) =>
              /\ calls[Len(calls)] = ups[Len(ups)]
              /\ pc = "done"
              /\ response.status = 500
              /\ CallsAt("query") = {}
              /\ ~CacheHas(CacheKey(url, query))
              /\ response_cache \in {{}, PriorCache}

C14_Witness ==
    /\ Len(UpsertCalls) = 3
    /\ UpsertCalls[3].n < 0
    /\ UpsertCalls[3].top_k = 1
    /\ pc = "done"
    /\ \E j \in 1..Len(index_vectors) : index_vectors[j] = vectors[200]

ReachedStore == CallsAt("handle") \cup CallsAt("exists") # {}

\* C16: when the collection is absent at the first request of the process,
\* it is created before any upsert or query is sent: no upsert or query call
\* is made while the collection is absent, and a request that went through
\* the vector store leaves the collection created.
C16_CreatedBeforeUse ==
    /\ (CallsAt("upsert") \cup CallsAt("query") # {}) => collection_exists
    /\ (pc = "done" /\ ReachedStore) => collection_exists

-----------------------------------------------------------------------------
\* Properties of the process: several requests, one VectorStore

\* C17: the ids of an indexing run are the url followed by the ordinal of
\* the segment, so a run with the same url and the same segment list as an
\* earlier run, started on what that run left, overwrites: the vectors stored
\* for the url after it are those stored before it, and their number has not
\* grown; no two stored vectors share an id.
C17_ReindexOverwrites ==
    /\ \A r \in 1..Len(runs) :
          /\ Len(runs[r].ids) = Len(runs[r].chunks)
          /\ \A i \in 1..Len(runs[r].ids) :
                runs[r].ids[i] = <<runs[r].url, "_", i - 1>>
    /\ \A i, j \in 1..Len(runs) :
          ( /\ i < j
            /\ runs[i].done
            /\ runs[j].done
            /\ runs[i].url = runs[j].url
            /\ runs[i].chunks = runs[j].chunks
            /\ runs[j].before = runs[i].after )
          => /\ runs[j].after = runs[i].after
             /\ Len(runs[j].after) = Len(runs[i].after)
    /\ \A a, b \in 1..Len(index_vectors) :
          a # b => index_vectors[a].id # index_vectors[b].id

C17_Witness ==
    \E i, j \in 1..Len(runs) :
        /\ i < j
        /\ runs[i].done
        /\ runs[j].done
        /\ runs[i].url = runs[j].url
        /\ runs[i].chunks = runs[j].chunks
        /\ runs[i].before = <<>>
        /\ runs[j].before = runs[i].after
        /\ Len(runs[j].after) = 3

ControlAt(c) == {i \in 1..Len(control) : control[i] = c}

\* C20: over the requests of a process, interleaved as the event loop allows,
\* create_index is called at most once, and once the handle is set no later
\* call lists, creates or polls the collection (or takes the handle again).
C20_EnsureIndexOnce ==
    /\ Cardinality(ControlAt("create")) <= 1
    /\ \A i \in ControlAt("Index") :
          \A j \in (i + 1)..Len(control) :
              control[j] \notin {"list", "create", "describe", "Index"}
    /\ index <=> ControlAt("Index") # {}

C20_Witness ==
    /\ n_requests >= 2
    /\ ControlAt("Index") # {}
    /\ Cardinality(ControlAt("ensure")) >= 4
    /\ Len(runs) >= 2

\* what the last url_exists probe of the request gave
LastProbe(cs) ==
    LET at == {i \in 1..Len(cs) : cs[i].op = "exists"}
    IN  cs[CHOOSE i \in at : \A j \in at : j <= i].n

\* C21: two requests in flight together for a url nothing is stored under can
\* both get exists = false and both run the upsert: nothing but the probe
\* guards the indexing.  A request is suspended only in its page fetch, before
\* its probe; an indexing run starts only on a probe that saw no match or
\* raised; and a run for a url that already has vectors is one whose probe
\* raised or did not see them yet, all of them written by this process.
\* Within the process the two runs are not interleaved: the later one starts
\* on everything the earlier one stored.
C21_BothMayIndex ==
    /\ [](\A k \in 1..Len(waiting) :
            waiting[k].calls =
                <<Call("cache", 0, CacheKey(waiting[k].url, waiting[k].query), 0),
                  Call("fetch", 0, waiting[k].url, 0)>>)
    /\ [](\A r \in 1..(Len(runs) - 1) :
            (runs[r].done /\ runs[r].url = runs[r + 1].url)
            => runs[r + 1].before = runs[r].after)
    /\ [][Len(runs') = Len(runs) + 1 =>
            /\ LastProbe(calls') <= 0
            /\ runs'[Len(runs')].before # <<>> =>
                  \/ LastProbe(calls') = -1
                  \/ \A i \in 1..Len(runs'[Len(runs')].before) :
                        runs'[Len(runs')].before[i].id \in fresh]_vars

C21_Witness ==
    /\ n_requests = 2
    /\ Len(runs) = 2
    /\ runs[1].url = runs[2].url
    /\ runs[1].before = <<>>
    /\ runs[1].overlapped
    /\ runs[1].done
    /\ runs[2].done
    /\ runs[2].before = runs[1].after
    /\ runs[2].before # <<>>
    /\ pc = "done"
    /\ response.status = 200
    /\ LastProbe(calls) = 0

\* the request was answered from the response cache
AnsweredFromCache ==
    /\ pc = "done"
    /\ calls # <<>>
    /\ calls[Len(calls)].op = "cache"
    /\ calls[Len(calls)].n = 1

\* C22: a request answered from the response cache gets a response computed
\* for its own (url, query): distinct valid pairs have distinct keys, so the
\* query field of the returned response is the query of the request.
C22_CacheHitSamePair ==
    AnsweredFromCache => response.query = query

====
